---- MODULE Spec2Model ----
(***************************************************************************)
(* Model of the shrinkwrap derive-macro generation engine                  *)
(* (shrinkwrap-macros/src/generate.rs and generate/types.rs).              *)
(*                                                                         *)
(* One behaviour is one invocation of generate_entrypoint on one Config:   *)
(* the Config (group declarations and origin fields) is drawn in Init, and *)
(* each action is one call made by generate_entrypoint, in program order.  *)
(* A panic/abort moves pc to "aborted" and nothing is returned.            *)
(* SpecRepo is the NestRepo of mapping/types.rs under any sequence of      *)
(* insert and add_field_to_nest calls.                                     *)
(* Identifiers are strings; struct names are built by concatenation as     *)
(* format_ident! does.                                                     *)
(***************************************************************************)
EXTENDS Naturals, Sequences, FiniteSets, TLC

VARIABLES
    nest_opts,        \* DeriveItemOpts.nest_opts: group declarations, in order
    wrapper_opts,     \* DeriveItemOpts.wrapper_opts: the wrapper's extra derives
    extra_opts,       \* DeriveItemOpts.extra_opts: the extra structs' extra derives
    origin_fields,    \* DeriveItemOpts.data fields, in declaration order
    pc,               \* position inside generate_entrypoint
    nest_fields,      \* NestFieldMap: nest id -> fields, built at line 22
    issues,           \* the local `issues` vector of validate_nests
    nest_origin_map,  \* NestOriginMap: origin ident -> child groups
    origin_order,     \* iteration order of the NestOriginMap hash table
    output,           \* the token stream: emitted structs and impls in order
    error,            \* panic message of an aborted invocation, "" if none
    runs,             \* number of the current invocation on this Config
    prev_output,      \* output of the previous invocation on this Config
    attrs,            \* DeriveItemOpts.attrs: the struct's shrinkwrap_attr attributes
    struct_attrs,     \* the parsed struct-level NestScopedAttrs (line 38)
    field_attrs,      \* NestFieldAttrMap: nest id -> field attributes (line 40)
    error_span,       \* the span an abort! of the invocation is attributed to
    repo,             \* a NestRepo (mapping/types.rs)
    diag              \* calls made on the NestRepo and the diagnostics they emitted

vars == <<nest_opts, wrapper_opts, extra_opts, origin_fields, pc, nest_fields, issues, nest_origin_map,
          origin_order, output, error, runs, prev_output, attrs, struct_attrs,
          field_attrs, error_span, repo, diag>>

-----------------------------------------------------------------------------
(* Bounds of the explored Configs *)

MaxNests == 2
MaxFields == 2

-----------------------------------------------------------------------------
(* Identifiers and option records *)

NoIdent == ""

root_ident == "R"

FieldNames == <<"a", "b", "c", "d">>

\* heck::AsUpperCamelCase on the identifiers used here
AsUpperCamelCase(s) ==
    CASE s = "g1" -> "G1"
      [] s = "g2" -> "G2"
      [] s = "gx" -> "Gx"
      [] OTHER -> s

StrategyFrom == [kind |-> "From", with |-> NoIdent, origin |-> NoIdent]
StrategyTransform(t) == [kind |-> "Transform", with |-> t, origin |-> NoIdent]
StrategyNested(o) == [kind |-> "Nested", with |-> NoIdent, origin |-> o]

\* a declaration with `from` unset and no `transform`, and one with both set
StrategyNone == [kind |-> "None", with |-> NoIdent, origin |-> NoIdent]
StrategyBoth(t) == [kind |-> "Both", with |-> t, origin |-> NoIdent]

maps_with_from(s) == s.kind = "From"
maps_with_transform(s) == s.kind = "Transform"
map_transform_type(s) == IF s.kind = "Transform" THEN s.with ELSE NoIdent

NestOpts(id, strategy, rename, optional) ==
    [id |-> id, field_name |-> NoIdent, rename |-> rename,
     map_strategy |-> strategy, optional |-> optional, derive |-> <<>>]

\* WrapperOpts and ExtraOpts: the `derive` list is the only option the
\* generated derive lists depend on
WrapperOpts(derive) == [derive |-> derive]
ExtraOpts(derive) == [derive |-> derive]

field_name(n) == IF n.field_name # NoIdent THEN n.field_name ELSE n.id

origin(n, root) ==
    IF n.map_strategy.kind = "Nested" THEN n.map_strategy.origin ELSE root

build_struct_name_suffix(fname) == AsUpperCamelCase(fname)

build_default_struct_name(origin_ident, root, fname) ==
    LET region_descriptor == IF origin_ident = root THEN "Nested" ELSE ""
    IN  origin_ident \o region_descriptor \o build_struct_name_suffix(fname)

struct_name_default(n, root) ==
    build_default_struct_name(origin(n, root), root, field_name(n))

struct_name(n, root) ==
    IF n.rename # NoIdent THEN n.rename ELSE struct_name_default(n, root)

WrapperStructName(data_ident) == data_ident \o "Wrapper"
ExtraStructName(parent_data_ident) == parent_data_ident \o "Extra"

data_field_name == "data"
extra_field_name == "extra"
field_type == "FieldType"

-----------------------------------------------------------------------------
(* Emitted items: struct definitions and impl blocks *)

FieldDecl(name, ty, optional) ==
    [name |-> name, ty |-> ty, optional |-> optional, init |-> NoIdent, attrs |-> <<>>]
FieldInit(name, init) ==
    [name |-> name, ty |-> NoIdent, optional |-> FALSE, init |-> init, attrs |-> <<>>]

\* `of` records what the struct was generated for: the origin of a wrapper or
\* extra struct, the group id of a nest struct.
StructItem(class, name, of, fields) ==
    [kind |-> "struct", class |-> class, name |-> name, of |-> of,
     from |-> NoIdent, with |-> NoIdent, fields |-> fields,
     derives |-> <<>>, attrs |-> <<>>]
ImplItem(trait, from, to, with, fields) ==
    [kind |-> "impl", class |-> trait, name |-> to, of |-> NoIdent,
     from |-> from, with |-> with, fields |-> fields,
     derives |-> <<>>, attrs |-> <<>>]

-----------------------------------------------------------------------------
(* Sequence helpers *)

Range(s) == {s[i] : i \in 1..Len(s)}

SeqsUpTo(S, n) == UNION {[1..k -> S] : k \in 0..n}

Perms(S) ==
    {p \in [1..Cardinality(S) -> S] : \A i, j \in 1..Cardinality(S) : p[i] = p[j] => i = j}

RECURSIVE Flatten(_)
Flatten(ss) == IF ss = <<>> THEN <<>> ELSE Head(ss) \o Flatten(Tail(ss))

-----------------------------------------------------------------------------
(* generate.rs: build_nest_fields_map *)

DeriveItemFieldOpts(ident, nest_in, field_attrs_in) ==
    [ident |-> ident, nest_in_opts |-> nest_in, attrs |-> field_attrs_in]

NestField(name) == [name |-> name, field_doc |-> ""]

ContainsFieldNever(e, f) == FALSE

\* impl PartialEq for NestField compares the name only; Vec::contains uses it
ContainsField(e, f) == \E i \in 1..Len(e) : e[i].name = f.name

PushFieldFront(e, f) == <<f>> \o e

\* e.push(field.clone())
PushField(e, f) == Append(e, f)

\* one map.entry(nest_id).and_modify(..).or_insert(vec![field]) step;
\* acc.ok = FALSE once the closure has panicked
InsertNestField(acc, nest_id, f) ==
    IF ~acc.ok THEN acc
    ELSE IF nest_id \in DOMAIN acc.map
         THEN IF ContainsField(acc.map[nest_id], f)
              THEN [acc EXCEPT !.ok = FALSE,
                               !.msg = "Nest '" \o nest_id \o "' already contains field: " \o f.name]
              ELSE [acc EXCEPT !.map = [acc.map EXCEPT ![nest_id] = PushField(@, f)]]
         ELSE [acc EXCEPT !.map = [k \in DOMAIN acc.map \cup {nest_id} |->
                                      IF k = nest_id THEN <<f>> ELSE acc.map[k]]]

\* the (field, nest id) pairs in the order the two nested loops visit them
FieldAssignments(fields) ==
    Flatten([i \in 1..Len(fields) |->
                [j \in 1..Len(fields[i].nest_in_opts) |->
                    [field |-> NestField(fields[i].ident),
                     nest_id |-> fields[i].nest_in_opts[j]]]])

RECURSIVE FoldNestFields(_, _)
FoldNestFields(acc, assignments) ==
    IF assignments = <<>> THEN acc
    ELSE FoldNestFields(
             InsertNestField(acc, Head(assignments).nest_id, Head(assignments).field),
             Tail(assignments))

build_nest_fields_map(fields) ==
    FoldNestFields([ok |-> TRUE, map |-> <<>>, msg |-> ""], FieldAssignments(fields))

-----------------------------------------------------------------------------
(* generate.rs: validate_nests *)

nest_ids(nests) == [i \in 1..Len(nests) |-> nests[i].id]

\* the ids for which `!visited_ids.insert(id)` holds: each becomes one entry of
\* `issues`
duplicate_ids(all_nest_ids) ==
    {all_nest_ids[i] : i \in {k \in 1..Len(all_nest_ids) :
                                 \E j \in 1..(k - 1) : all_nest_ids[j] = all_nest_ids[k]}}

no_unknown_nest_ids(nest_field_map, all_nest_ids) == {}

\* nest ids used by a field but not declared: each makes the second loop panic
unknown_nest_ids(nest_field_map, all_nest_ids) ==
    {id \in DOMAIN nest_field_map : id \notin Range(all_nest_ids)}

-----------------------------------------------------------------------------
(* generate.rs: build_origin_map and the strategy selection of the entrypoint *)

RECURSIVE FoldOriginMap(_, _, _)
FoldOriginMap(map, nests, root) ==
    IF nests = <<>> THEN map
    ELSE LET nest == Head(nests)
             nest_origin == origin(nest, root)
             with_key == IF nest_origin \in DOMAIN map THEN map
                         ELSE [k \in DOMAIN map \cup {nest_origin} |->
                                  IF k = nest_origin THEN <<>> ELSE map[k]]
         IN  FoldOriginMap([with_key EXCEPT ![nest_origin] = Append(@, nest)],
                           Tail(nests), root)

build_origin_map(nests, root) == FoldOriginMap(<<>>, nests, root)

NestsOf(origin_map, origin_ident) ==
    IF origin_ident \in DOMAIN origin_map THEN origin_map[origin_ident] ELSE <<>>

root_nests(origin_map) == NestsOf(origin_map, root_ident)

all_from_impl(nests) ==
    \A i \in 1..Len(nests) : maps_with_from(nests[i].map_strategy)

first_transform(nests) ==
    LET hits == {i \in 1..Len(nests) : maps_with_transform(nests[i].map_strategy)}
    IN  IF hits = {} THEN NoIdent
        ELSE map_transform_type(
                 nests[CHOOSE i \in hits : \A j \in hits : i <= j].map_strategy)

all_identical_transform(nests) ==
    /\ first_transform(nests) # NoIdent
    /\ \A i \in 1..Len(nests) :
           nests[i].map_strategy = StrategyTransform(first_transform(nests))

transform_all_with(nests) ==
    IF all_identical_transform(nests) THEN first_transform(nests) ELSE NoIdent

-----------------------------------------------------------------------------
(* generate/types.rs: the impl blocks of Wrapper, Extra and Nest *)

ExtraNestFieldNeverOptional(nest, root) ==
    [field_name |-> field_name(nest),
     type_ident |-> struct_name(nest, root),
     optional |-> FALSE]

ExtraNestField(nest, root) ==
    [field_name |-> field_name(nest),
     type_ident |-> struct_name(nest, root),
     optional |-> nest.optional]

ExtraNestFields(nests, root) ==
    [i \in 1..Len(nests) |-> ExtraNestField(nests[i], root)]

\* Wrapper::build_from_data_impl: impl From<Data> for Wrapper
WrapperBuildFromDataImpl(data_struct_name, wrapper_name, extra_struct_name) ==
    ImplItem("From", data_struct_name, wrapper_name, NoIdent,
             <<FieldInit("extra", extra_struct_name), FieldInit("data", "data")>>)

\* Wrapper::to_wrapped_impl: impl Wrap for Data
ToWrappedImpl(data_struct_name, wrapper_name) ==
    ImplItem("Wrap", data_struct_name, wrapper_name, NoIdent, <<>>)

TransformCallsDropLast(nest_fields_in) ==
    [i \in 1..(Len(nest_fields_in) - 1) |->
        FieldInit(nest_fields_in[i].field_name, "transform_to_nest")]

\* the `extra_fields` loop of Wrapper::to_wrapped_with_impl
TransformCalls(nest_fields_in) ==
    [i \in 1..Len(nest_fields_in) |->
        FieldInit(nest_fields_in[i].field_name, "transform_to_nest")]

\* Wrapper::to_wrapped_with_impl: impl WrapWith<Transformer> for Data
ToWrappedWithImpl(data_struct_name, wrapper_name, transformer_type, nest_fields_in) ==
    ImplItem("WrapWith", data_struct_name, wrapper_name, transformer_type,
             TransformCalls(nest_fields_in) \o <<FieldInit(data_field_name, "self")>>)

\* Extra::build_from_data_impl: impl From<&Origin> for Extra
ExtraBuildFromDataImpl(origin_ident, extra_name, nest_fields_in) ==
    ImplItem("FromRef", origin_ident, extra_name, NoIdent,
             [i \in 1..Len(nest_fields_in) |->
                 FieldInit(nest_fields_in[i].field_name, nest_fields_in[i].type_ident)])

\* Nest::to_nest_impl: impl ToNest<Nest> for Origin
ToNestImpl(origin_ident, nest_struct_name) ==
    ImplItem("ToNest", origin_ident, nest_struct_name, NoIdent, <<>>)

\* Nest::new, line 287
is_nested(nest) == nest.map_strategy.kind = "Nested"

-----------------------------------------------------------------------------
(* generate.rs: generate_wrapper_struct, generate_extra_structs,           *)
(* generate_nest_structs: the tokens each appends to the output            *)

default_derive_names == <<"Debug", "Clone", "serde::Serialize">>

\* #[derive(#default_names, #(#derives),*)]
build_derives_token(derives) == default_derive_names \o derives

\* build_attribute_token skips an empty attribute
build_attributes_token(attributes) == SelectSeq(attributes, LAMBDA a : a # "")

\* StructGenScope is "wrapper", "extra" or "nest"; the context of an
\* attribute is one of these or "All"
has_struct_scope_any(a, scope) == TRUE

has_struct_scope(a, scope) == a.context = "All" \/ a.context = scope

has_struct_scope_for_nest(a, scope, nest_id) ==
    IF ~has_struct_scope(a, scope) THEN FALSE
    ELSE IF a.nests = <<>> THEN TRUE
    ELSE \E i \in 1..Len(a.nests) : a.nests[i] = nest_id

is_permitted_by_filter(a, scope, assoc_nest_ids) ==
    IF ~has_struct_scope(a, scope) THEN FALSE
    ELSE IF a.nests = <<>> THEN TRUE
    ELSE \E i \in 1..Len(a.nests) : a.nests[i] \in Range(assoc_nest_ids)

\* the tokens pushed by a `for struct_attr in struct_attrs { if .. { push } }`
\* loop, `permitted` being the attributes that pass its condition, in order
PushPermitted(permitted) ==
    [i \in 1..Len(permitted) |-> permitted[i].attributes_token]

\* generate.rs:233-235, 279-281
assoc_nest_ids(origin_map, origin_ident) == nest_ids(NestsOf(origin_map, origin_ident))

WrapperStruct(opts, root, extra_ident, wrapper_attrs) ==
    [StructItem("wrapper", WrapperStructName(root), root,
                <<FieldDecl(data_field_name, root, FALSE),
                  FieldDecl(extra_field_name, extra_ident, FALSE)>>)
        EXCEPT !.derives = build_derives_token(opts.derive),
               !.attrs = build_attributes_token(wrapper_attrs)]

generate_wrapper_struct(opts, root, extra_ident, origin_map, struct_attrs_in, from_impl, from_with_impl) ==
    LET root_extra_fields == ExtraNestFields(NestsOf(origin_map, root), root)
        wrapper_attrs ==
            PushPermitted(SelectSeq(struct_attrs_in,
                          LAMBDA a : is_permitted_by_filter(
                                         a, "wrapper", assoc_nest_ids(origin_map, root))))
        wrapper_name == WrapperStructName(root)
        impl_tokens ==
            IF from_impl
            THEN <<ToWrappedImpl(root, wrapper_name),
                   WrapperBuildFromDataImpl(root, wrapper_name, extra_ident)>>
            ELSE IF from_with_impl # NoIdent
                 THEN <<ToWrappedWithImpl(root, wrapper_name, from_with_impl,
                                          root_extra_fields)>>
                 ELSE <<>>
    IN  <<WrapperStruct(opts, root, extra_ident, wrapper_attrs)>> \o impl_tokens

ExtraStruct(opts, origin_ident, extra_attrs, nest_fields_in) ==
    [StructItem("extra", ExtraStructName(origin_ident), origin_ident,
                [i \in 1..Len(nest_fields_in) |->
                    FieldDecl(nest_fields_in[i].field_name,
                              nest_fields_in[i].type_ident,
                              nest_fields_in[i].optional)])
        EXCEPT !.derives = build_derives_token(opts.derive),
               !.attrs = build_attributes_token(extra_attrs)]

\* the body of the loop of generate_extra_structs for one map entry
ExtraTokens(opts, origin_ident, origin_map, root, struct_attrs_in, from_impl) ==
    LET nest_fields_in == ExtraNestFields(origin_map[origin_ident], root)
        extra_attrs ==
            PushPermitted(SelectSeq(struct_attrs_in,
                          LAMBDA a : is_permitted_by_filter(
                                         a, "extra",
                                         assoc_nest_ids(origin_map, origin_ident))))
    IN  <<ExtraStruct(opts, origin_ident, extra_attrs, nest_fields_in)>>
        \o (IF from_impl /\ origin_ident = root
            THEN <<ExtraBuildFromDataImpl(origin_ident,
                                          ExtraStructName(origin_ident),
                                          nest_fields_in)>>
            ELSE <<>>)

generate_extra_structs(opts, root, origin_map, order, struct_attrs_in, from_impl) ==
    Flatten([i \in 1..Len(order) |->
                ExtraTokens(opts, order[i], origin_map, root, struct_attrs_in,
                            from_impl)])

\* ToTokens for Nest, the field loop: `.find` yields the first entry of
\* field_attrs whose field_name is the field's
FindFieldAttrs(field_attrs_in, name) ==
    LET mine == SelectSeq(field_attrs_in, LAMBDA fa : fa.field_name = name)
    IN  IF mine = <<>> THEN <<>> ELSE <<mine[1].attributes_token>>

NestStruct(nest, root, nest_attrs, fields, field_attrs_in) ==
    [StructItem("nest", struct_name(nest, root), nest.id,
                [i \in 1..Len(fields) |->
                    [FieldDecl(fields[i].name, field_type, FALSE)
                        EXCEPT !.attrs = FindFieldAttrs(field_attrs_in, fields[i].name)]])
        EXCEPT !.derives = build_derives_token(nest.derive),
               !.attrs = build_attributes_token(nest_attrs)]

\* the body of the loop of generate_nest_structs for one nest
NestTokens(nest, root, struct_attrs_in, nest_field_map, nest_field_attrs) ==
    LET fields == IF nest.id \in DOMAIN nest_field_map
                  THEN nest_field_map[nest.id] ELSE <<>>
        field_attrs_in == IF nest.id \in DOMAIN nest_field_attrs
                          THEN nest_field_attrs[nest.id] ELSE <<>>
        nest_attrs ==
            PushPermitted(SelectSeq(struct_attrs_in,
                          LAMBDA a : has_struct_scope_for_nest(a, "nest", nest.id)))
    IN  <<NestStruct(nest, root, nest_attrs, fields, field_attrs_in)>>
        \o (IF ~is_nested(nest)
            THEN <<ToNestImpl(origin(nest, root), struct_name(nest, root))>>
            ELSE <<>>)

generate_nest_structs(root, origin_map, order, struct_attrs_in, nest_field_map, nest_field_attrs) ==
    Flatten([i \in 1..Len(order) |->
                Flatten([j \in 1..Len(origin_map[order[i]]) |->
                            NestTokens(origin_map[order[i]][j], root, struct_attrs_in,
                                       nest_field_map, nest_field_attrs)])])

-----------------------------------------------------------------------------
(* generate.rs: parse_forward_attrs, validate_forward_attrs,               *)
(* parse_field_attrs, build_nest_field_attr_map                            *)

NoSpan == [owner |-> "call_site", index |-> 0, part |-> ""]

Span(owner, index, part) == [owner |-> owner, index |-> index, part |-> part]

\* one #[shrinkwrap_attr(nest(..), context = .., attr(..), attr(..))]
PassthroughAttribute(nest, context, attr) ==
    [nest |-> nest, context |-> context, attr |-> attr]

\* nests = <<>> is NestSelection::Unrestricted, otherwise Restricted(nests)
NestScopedAttrs(nests, attributes_token, nests_span, context) ==
    [nests |-> nests, attributes_token |-> attributes_token,
     nests_span |-> nests_span, context |-> context]

HasDuplicates(s) == \E i, j \in 1..Len(s) : i # j /\ s[i] = s[j]

Failure(msg, span) ==
    [ok |-> FALSE, attrs |-> <<>>, msg |-> msg, span |-> span]

\* the Ok(attr_struct) arm of parse_forward_attrs for the index-th attribute
ParseForwardAttr(a, owner, index, allow_context) ==
    IF a.context # NoIdent /\ ~allow_context
    THEN Failure("Attribute option 'context' is not permitted on field attributes",
                 Span(owner, index, "attr"))
    ELSE IF HasDuplicates(a.nest)
    THEN LET k == CHOOSE k \in 1..Len(a.nest) :
                      /\ \E j \in 1..(k - 1) : a.nest[j] = a.nest[k]
                      /\ \A l \in 1..(k - 1) : ~\E j \in 1..(l - 1) : a.nest[j] = a.nest[l]
         IN  Failure("Nest '" \o a.nest[k] \o "' specified multiple times",
                     Span(owner, index, "attr"))
    ELSE [ok |-> TRUE,
          attrs |-> [k \in 1..Len(a.attr) |->
                        NestScopedAttrs(a.nest, a.attr[k], Span(owner, index, "attr"),
                                        IF a.context = NoIdent THEN "All" ELSE a.context)],
          msg |-> "", span |-> NoSpan]

RECURSIVE FoldForwardAttrs(_, _, _, _, _)
FoldForwardAttrs(acc, raw, owner, index, allow_context) ==
    IF index > Len(raw) \/ ~acc.ok THEN acc
    ELSE LET one == ParseForwardAttr(raw[index], owner, index, allow_context)
         IN  FoldForwardAttrs(
                 IF one.ok THEN [acc EXCEPT !.attrs = @ \o one.attrs] ELSE one,
                 raw, owner, index + 1, allow_context)

parse_forward_attrs(raw, owner, allow_context) ==
    FoldForwardAttrs([ok |-> TRUE, attrs |-> <<>>, msg |-> "", span |-> NoSpan],
                     raw, owner, 1, allow_context)

NoNestMissing(scoped, nest_field_map) == {}

\* the (attribute, nest id) pairs for which `!nest_fields.contains_key(nest_id)`
MissingNests(scoped, nest_field_map) ==
    UNION {{<<i, j>> : j \in {j \in 1..Len(scoped[i].nests) :
                                 scoped[i].nests[j] \notin DOMAIN nest_field_map}} :
           i \in 1..Len(scoped)}

\* validate_forward_attrs: aborts at the first missing nest in iteration order
validate_forward_attrs(scoped, nest_field_map) ==
    LET missing == MissingNests(scoped, nest_field_map)
    IN  IF missing = {} THEN [ok |-> TRUE, attrs |-> scoped, msg |-> "", span |-> NoSpan]
        ELSE LET m == CHOOSE m \in missing :
                          \A n \in missing :
                              m[1] < n[1] \/ (m[1] = n[1] /\ m[2] <= n[2])
             IN  Failure("Nest '" \o scoped[m[1]].nests[m[2]] \o "' doesn't exist",
                         scoped[m[1]].nests_span)

\* the loop of parse_field_attrs: parse and validate each field's attributes
RECURSIVE FoldFieldAttrs(_, _, _, _)
FoldFieldAttrs(acc, fields, index, nest_field_map) ==
    IF index > Len(fields) \/ ~acc.ok THEN acc
    ELSE LET parsed == parse_forward_attrs(fields[index].attrs, fields[index].ident, FALSE)
             checked == IF parsed.ok
                        THEN validate_forward_attrs(parsed.attrs, nest_field_map)
                        ELSE parsed
         IN  FoldFieldAttrs(
                 IF checked.ok
                 THEN [acc EXCEPT !.attrs = Append(@, [field |-> fields[index].ident,
                                                       attrs |-> checked.attrs])]
                 ELSE checked,
                 fields, index + 1, nest_field_map)

NestFieldAttrs(field, attributes_token) ==
    [field_name |-> field, attributes_token |-> attributes_token]

\* build_nest_field_attr_map: `field_attr_map` is visited in the order `order`
\* (a std HashMap keyed by field); each attribute is pushed onto the list of
\* every nest it selects
build_nest_field_attr_map(field_attr_map, order, nest_field_map) ==
    LET pushes == Flatten([o \in 1..Len(order) |->
                     Flatten([k \in 1..Len(field_attr_map[order[o]].attrs) |->
                         LET at == field_attr_map[order[o]].attrs[k]
                             ids == IF at.nests = <<>> THEN DOMAIN nest_field_map
                                    ELSE Range(at.nests)
                         IN  <<[ids |-> ids,
                                entry |-> NestFieldAttrs(field_attr_map[order[o]].field,
                                                         at.attributes_token)]>>])])
        keys == UNION {pushes[i].ids : i \in 1..Len(pushes)}
    IN  [id \in keys |->
            LET mine == SelectSeq(pushes, LAMBDA q : id \in q.ids)
            IN  [i \in 1..Len(mine) |-> mine[i].entry]]

-----------------------------------------------------------------------------
(* wrap.rs: validate_within_scope, and the order of the calls that          *)
(* derive_wrap_impl and generate_entrypoint make                            *)

\* impl ValidateScoped for DeriveItemOpts / NestOpts: one issue per empty id
validate_within_scope(nests) ==
    [i \in 1..Len(SelectSeq(nests, LAMBDA n : n.id = "")) |-> "Nest 'id' cannot be empty"]

entrypoint_order_validate_last ==
    <<"scope", "start", "origin_map", "wrapper", "extra", "nest", "validate",
      "attrs", "done">>

entrypoint_order ==
    <<"scope", "start", "validate", "attrs", "origin_map", "wrapper", "extra",
      "nest", "done">>

StageAfter(stage) ==
    entrypoint_order[(CHOOSE i \in 1..Len(entrypoint_order) :
                          entrypoint_order[i] = stage) + 1]

-----------------------------------------------------------------------------
(* mapping/types.rs: NestRepo                                              *)
(* A HashMap is a function; Option is a sequence of length 0 or 1.         *)

Put(m, k, v) == [x \in DOMAIN m \cup {k} |-> IF x = k THEN v ELSE m[x]]

Get(m, k) == IF k \in DOMAIN m THEN <<m[k]>> ELSE <<>>

\* a NestOpts as darling parsed it from the decl-th nest(..) declaration: the
\* spans of its id, field_name and rename lie in that declaration
Declared(n, decl) ==
    [x \in DOMAIN n \cup {"decl"} |-> IF x = "decl" THEN decl ELSE n[x]]

id_span(opts) == Span("nest", opts.decl, "id")

struct_name_span(opts) ==
    IF opts.rename # NoIdent THEN Span("nest", opts.decl, "rename")
    ELSE IF opts.field_name # NoIdent THEN Span("nest", opts.decl, "field_name")
    ELSE Span("nest", opts.decl, "id")

NestStructAttrInfo == [wrapper |-> <<>>, extra |-> <<>>, nest |-> <<>>]

NestInfo(ident, opts) ==
    [ident |-> ident, opts |-> opts, struct_attrs |-> NestStructAttrInfo,
     fields |-> <<>>]

RepoNestField(name, field_attrs_in, decl) ==
    [name |-> name, attrs |-> field_attrs_in, decl |-> decl]

NestRepoNew(root) ==
    [root_ident |-> root, nest_map |-> <<>>, origin_children_map |-> <<>>,
     nest_parent_map |-> <<>>, nest_id_map |-> <<>>, nest_id_span_map |-> <<>>]

Diagnostic(span, msg) == [span |-> span, msg |-> msg]

get_by_ident_never(r, nest_ident) == <<>>

get_by_ident(r, nest_ident) == Get(r.nest_map, nest_ident)

get_by_id(r, nest_id) ==
    IF nest_id \in DOMAIN r.nest_id_map
    THEN get_by_ident(r, r.nest_id_map[nest_id]) ELSE <<>>

get_id_spanned(r, nest_id) == Get(r.nest_id_span_map, nest_id)

id_exists_never(r, nest_id) == FALSE

id_exists(r, nest_id) == nest_id \in DOMAIN r.nest_id_map

children_reversed(children, nest_ident) == <<nest_ident>> \o children

\* .and_modify(|children| children.push(nest_ident.clone()))
children_push(children, nest_ident) == Append(children, nest_ident)

\* NestRepo::insert: the repo after the call, the diagnostics emitted, and
\* whether the call aborted
insert(r, opts) ==
    IF id_exists(r, opts.id)
    THEN [repo |-> r, aborted |-> TRUE,
          errors |->
              (IF get_id_spanned(r, opts.id) # <<>>
               THEN <<Diagnostic(get_id_spanned(r, opts.id)[1],
                                 "First nest with ID '" \o opts.id \o "' defined here")>>
               ELSE <<>>)
              \o <<Diagnostic(id_span(opts),
                              "Multiple nests exist with ID: " \o opts.id)>>]
    ELSE LET nest_ident == struct_name(opts, r.root_ident)
             existing_info == get_by_ident(r, nest_ident)
             nest_origin == origin(opts, r.root_ident)
         IN  IF existing_info # <<>>
             THEN [repo |-> r, aborted |-> TRUE,
                   errors |->
                       <<Diagnostic(struct_name_span(existing_info[1].opts),
                                    "First nest with ident '" \o nest_ident \o "' defined here"),
                         Diagnostic(id_span(opts),
                                    "Multiple nests exist with ident: " \o nest_ident)>>]
             ELSE [repo |->
                       [r EXCEPT
                           !.nest_parent_map = Put(@, nest_ident, nest_origin),
                           !.nest_id_map = Put(@, opts.id, nest_ident),
                           !.nest_id_span_map = Put(@, opts.id, id_span(opts)),
                           !.origin_children_map =
                               IF nest_origin \in DOMAIN @
                               THEN [@ EXCEPT ![nest_origin] = children_push(@, nest_ident)]
                               ELSE Put(@, nest_origin, <<nest_ident>>),
                           !.nest_map = Put(@, nest_ident, NestInfo(nest_ident, opts))],
                   aborted |-> FALSE, errors |-> <<>>]

get_children_by_origin_ident(r, nest_ident) ==
    IF nest_ident \in DOMAIN r.origin_children_map
    THEN LET children_idents == r.origin_children_map[nest_ident]
             found == SelectSeq(children_idents, LAMBDA c : get_by_ident(r, c) # <<>>)
         IN  [i \in 1..Len(found) |-> get_by_ident(r, found[i])[1]]
    ELSE <<>>

get_parent_ident(r, nest_ident) == Get(r.nest_parent_map, nest_ident)

is_parent_ident_negated(r, ident) ==
    IF ident \in DOMAIN r.origin_children_map
    THEN r.origin_children_map[ident] = <<>> ELSE FALSE

is_parent_ident(r, ident) ==
    IF ident \in DOMAIN r.origin_children_map
    THEN r.origin_children_map[ident] # <<>> ELSE FALSE

add_field_to_nest_insert_first(r, nest_id, field) ==
    IF get_by_id(r, nest_id) # <<>>
    THEN LET info == get_by_id(r, nest_id)[1]
         IN  [repo |-> [r EXCEPT !.nest_map[info.ident].fields = Put(@, field.name, field)],
              aborted |-> field.name \in DOMAIN info.fields,
              errors |-> IF field.name \in DOMAIN info.fields
                         THEN <<Diagnostic(Span(field.name, field.decl, "field"),
                                           "Field name used multiple times for nest "
                                               \o nest_id)>>
                         ELSE <<>>]
    ELSE [repo |-> r, aborted |-> TRUE,
          errors |-> <<Diagnostic(Span(nest_id, field.decl, "nest_in"),
                                  "Unknown nest ID: " \o nest_id)>>]

\* NestRepo::add_field_to_nest
add_field_to_nest(r, nest_id, field) ==
    IF get_by_id(r, nest_id) # <<>>
    THEN LET info == get_by_id(r, nest_id)[1]
         IN  IF field.name \in DOMAIN info.fields
             THEN [repo |-> r, aborted |-> TRUE,
                   errors |->
                       <<Diagnostic(Span(info.fields[field.name].name,
                                         info.fields[field.name].decl, "field"),
                                    "First field defined here"),
                         Diagnostic(Span(field.name, field.decl, "field"),
                                    "Field name used multiple times for nest " \o nest_id)>>]
             ELSE [repo |->
                       [r EXCEPT !.nest_map[info.ident].fields = Put(@, field.name, field)],
                   aborted |-> FALSE, errors |-> <<>>]
    ELSE [repo |-> r, aborted |-> TRUE,
          errors |-> <<Diagnostic(Span(nest_id, field.decl, "nest_in"),
                                  "Unknown nest ID: " \o nest_id)>>]

-----------------------------------------------------------------------------
(* Configs explored *)

NestIds == {"g1", "g2"}
TransformTypes == {"T1", "T2"}

Strategies ==
    {StrategyFrom} \cup {StrategyTransform(t) : t \in TransformTypes}
    \cup {StrategyNested("RNestedG1")}

NestChoices ==
    {NestOpts(id, s, NoIdent, FALSE) : id \in NestIds, s \in Strategies}
    \cup {NestOpts("g2", StrategyFrom, "RNestedG1", FALSE),
          NestOpts("g1", StrategyFrom, NoIdent, TRUE),
          NestOpts("g1", StrategyNested("RNestedG1"), "RNestedG1", FALSE)}

\* declarations that name no mapping strategy, two at once, or an empty id
DeclChoices ==
    {NestOpts("g1", StrategyFrom, NoIdent, FALSE),
     NestOpts("g2", StrategyTransform("T1"), NoIdent, FALSE),
     NestOpts("g1", StrategyNone, NoIdent, FALSE),
     NestOpts("g2", StrategyBoth("T1"), NoIdent, FALSE),
     NestOpts("", StrategyFrom, NoIdent, FALSE)}

AttrNestChoices ==
    {NestOpts("g1", StrategyFrom, NoIdent, FALSE),
     NestOpts("g2", StrategyFrom, NoIdent, FALSE)}

NestInChoices == {<<>>, <<"g1">>, <<"g1", "g2">>, <<"g1", "g1">>, <<"gx">>}

FieldChoices ==
    {fs \in [1..MaxFields -> [ident : Range(FieldNames), nest_in_opts : NestInChoices,
                              attrs : {<<>>}]] :
        \A i \in 1..MaxFields : fs[i].ident = FieldNames[i]}

StructAttrChoices ==
    {<<>>,
     <<PassthroughAttribute(<<"g1">>, "nest", <<"x">>)>>,
     <<PassthroughAttribute(<<"g2">>, NoIdent, <<"x">>)>>,
     <<PassthroughAttribute(<<"gx">>, NoIdent, <<"x">>)>>,
     <<PassthroughAttribute(<<"g1", "g1">>, NoIdent, <<"x">>)>>}

FieldAttrChoices ==
    {<<>>,
     <<PassthroughAttribute(<<>>, NoIdent, <<"y">>)>>,
     <<PassthroughAttribute(<<"g1">>, NoIdent, <<"y">>)>>,
     <<PassthroughAttribute(<<"gx">>, NoIdent, <<"y">>)>>,
     <<PassthroughAttribute(<<>>, "nest", <<"y">>)>>}

AttrFieldChoices ==
    {fs \in [1..MaxFields -> [ident : Range(FieldNames),
                              nest_in_opts : {<<>>, <<"g1">>, <<"g1", "g2">>},
                              attrs : FieldAttrChoices]] :
        \A i \in 1..MaxFields : fs[i].ident = FieldNames[i]}

-----------------------------------------------------------------------------
(* The invocation *)

\* inserted: the NestOpts inserted so far; attempt: the latest call
NoDiag ==
    [inserted |-> <<>>, added |-> 0, errors |-> <<>>, aborted |-> FALSE,
     attempt |-> [op |-> "none", arg |-> <<>>]]

Idle ==
    /\ pc = "scope"
    /\ nest_fields = <<>>
    /\ issues = {}
    /\ struct_attrs = <<>>
    /\ field_attrs = <<>>
    /\ nest_origin_map = <<>>
    /\ origin_order = <<>>
    /\ output = <<>>
    /\ error = ""
    /\ error_span = NoSpan
    /\ runs = 1
    /\ prev_output = <<>>
    /\ repo = NestRepoNew(root_ident)
    /\ diag = NoDiag

\* no extra derives on the wrapper and extra structs
DefaultOpts ==
    /\ wrapper_opts = WrapperOpts(<<>>)
    /\ extra_opts = ExtraOpts(<<>>)

Init ==
    /\ nest_opts \in SeqsUpTo(NestChoices, MaxNests)
    /\ origin_fields \in FieldChoices
    /\ attrs = <<>>
    /\ DefaultOpts
    /\ Idle

\* wrap.rs:41-46  if let Some(invalidity) = &args.validate_within_scope()
ValidateWithinScope ==
    /\ pc = "scope"
    /\ LET invalidity == validate_within_scope(nest_opts)
       IN  IF invalidity = <<>>
           THEN /\ pc' = StageAfter("scope")
                /\ error' = error
           ELSE /\ pc' = "aborted"
                /\ error' = invalidity[1]
    /\ UNCHANGED <<attrs, struct_attrs, field_attrs, repo, diag, nest_opts, wrapper_opts, extra_opts,
                   origin_fields, nest_fields, issues, nest_origin_map,
                   origin_order, output, error_span, runs, prev_output>>

\* generate.rs:22  let nest_fields = build_nest_fields_map(&origin_fields);
BuildNestFieldsMap ==
    /\ pc = "start"
    /\ LET built == build_nest_fields_map(origin_fields)
       IN  IF built.ok
           THEN /\ nest_fields' = built.map
                /\ pc' = StageAfter("start")
                /\ error' = error
           ELSE /\ nest_fields' = nest_fields
                /\ pc' = "aborted"
                /\ error' = built.msg
    /\ UNCHANGED <<attrs, struct_attrs, field_attrs, repo, diag, nest_opts, wrapper_opts, extra_opts,
                   origin_fields, issues, nest_origin_map, origin_order, output,
                   error_span, runs, prev_output>>

\* generate.rs:24  validate_nests(&nest_fields, nest_ids);
\* `issues` is filled and then dropped; only an unknown nest id panics
ValidateNests ==
    /\ pc = "validate"
    /\ issues' = duplicate_ids(nest_ids(nest_opts))
    /\ LET unknown == unknown_nest_ids(nest_fields, nest_ids(nest_opts))
       IN  IF unknown = {}
           THEN /\ pc' = StageAfter("validate")
                /\ error' = error
           ELSE /\ pc' = "aborted"
                /\ \E id \in unknown : error' = "Unknown nest '" \o id \o "'"
    /\ UNCHANGED <<attrs, struct_attrs, field_attrs, repo, diag, nest_opts, wrapper_opts, extra_opts,
                   origin_fields, nest_fields, nest_origin_map, origin_order,
                   output, error_span, runs, prev_output>>

\* generate.rs:36-40  parse_forward_attrs, validate_forward_attrs and
\* parse_field_attrs; an abort! carries the span it is attributed to
ParseForwardAttrs ==
    /\ pc = "attrs"
    /\ LET parsed == parse_forward_attrs(attrs, "struct", TRUE)
           checked == IF parsed.ok THEN validate_forward_attrs(parsed.attrs, nest_fields)
                      ELSE parsed
           per_field == IF checked.ok
                        THEN FoldFieldAttrs([ok |-> TRUE, attrs |-> <<>>, msg |-> "",
                                             span |-> NoSpan],
                                            origin_fields, 1, nest_fields)
                        ELSE checked
       IN  IF per_field.ok
           THEN /\ struct_attrs' = checked.attrs
                /\ \E order \in Perms(1..Len(per_field.attrs)) :
                       field_attrs' = build_nest_field_attr_map(per_field.attrs, order,
                                                                nest_fields)
                /\ pc' = StageAfter("attrs")
                /\ UNCHANGED <<error, error_span>>
           ELSE /\ pc' = "aborted"
                /\ error' = per_field.msg
                /\ error_span' = per_field.span
                /\ UNCHANGED <<struct_attrs, field_attrs>>
    /\ UNCHANGED <<attrs, repo, diag, nest_opts, wrapper_opts, extra_opts, origin_fields, nest_fields, issues,
                   nest_origin_map, origin_order, output, runs, prev_output>>

\* generate.rs:43  let nest_origin_map = build_origin_map(nest_opts, &root_ident);
\* the map is a std HashMap: its iteration order is fixed when it is built and
\* is any order of its keys
BuildOriginMap ==
    /\ pc = "origin_map"
    /\ nest_origin_map' = build_origin_map(nest_opts, root_ident)
    /\ origin_order' \in Perms(DOMAIN nest_origin_map')
    /\ pc' = StageAfter("origin_map")
    /\ UNCHANGED <<attrs, struct_attrs, field_attrs, repo, diag, nest_opts, wrapper_opts, extra_opts,
                   origin_fields, nest_fields, issues, output, error, error_span,
                   runs, prev_output>>

\* generate.rs:49-78
GenerateWrapperStruct ==
    /\ pc = "wrapper"
    /\ output' = output \o generate_wrapper_struct(
                     wrapper_opts, root_ident, ExtraStructName(root_ident),
                     nest_origin_map, struct_attrs,
                     all_from_impl(root_nests(nest_origin_map)),
                     transform_all_with(root_nests(nest_origin_map)))
    /\ pc' = StageAfter("wrapper")
    /\ UNCHANGED <<attrs, struct_attrs, field_attrs, repo, diag, nest_opts, wrapper_opts, extra_opts,
                   origin_fields, nest_fields, issues, nest_origin_map,
                   origin_order, error, error_span, runs, prev_output>>

\* generate.rs:79-86
GenerateExtraStructs ==
    /\ pc = "extra"
    /\ output' = output \o generate_extra_structs(
                     extra_opts, root_ident, nest_origin_map, origin_order,
                     struct_attrs,
                     all_from_impl(root_nests(nest_origin_map)))
    /\ pc' = StageAfter("extra")
    /\ UNCHANGED <<attrs, struct_attrs, field_attrs, repo, diag, nest_opts, wrapper_opts, extra_opts,
                   origin_fields, nest_fields, issues, nest_origin_map,
                   origin_order, error, error_span, runs, prev_output>>

\* generate.rs:87-95
GenerateNestStructs ==
    /\ pc = "nest"
    /\ output' = output \o generate_nest_structs(
                     root_ident, nest_origin_map, origin_order, struct_attrs,
                     nest_fields, field_attrs)
    /\ pc' = StageAfter("nest")
    /\ UNCHANGED <<attrs, struct_attrs, field_attrs, repo, diag, nest_opts, wrapper_opts, extra_opts,
                   origin_fields, nest_fields, issues, nest_origin_map,
                   origin_order, error, error_span, runs, prev_output>>

\* a second invocation of the macro on the same Config: all intermediate state
\* is allocated afresh, the first output is kept for comparison
Regenerate ==
    /\ pc = "done"
    /\ runs = 1
    /\ runs' = 2
    /\ prev_output' = output
    /\ pc' = "scope"
    /\ nest_fields' = <<>>
    /\ issues' = {}
    /\ struct_attrs' = <<>>
    /\ field_attrs' = <<>>
    /\ nest_origin_map' = <<>>
    /\ origin_order' = <<>>
    /\ output' = <<>>
    /\ UNCHANGED <<attrs, repo, diag, nest_opts, wrapper_opts, extra_opts, origin_fields, error, error_span>>

Next ==
    \/ ValidateWithinScope
    \/ BuildNestFieldsMap
    \/ ValidateNests
    \/ ParseForwardAttrs
    \/ BuildOriginMap
    \/ GenerateWrapperStruct
    \/ GenerateExtraStructs
    \/ GenerateNestStructs

Spec == Init /\ [][Next]_vars

NextTwice == Next \/ Regenerate

SpecTwice == Init /\ [][NextTwice]_vars

(* Configs that satisfy the data-model invariants: unique identities and   *)
(* struct names, every origin the root or an earlier group, every field    *)
(* assigned to declared groups and at most once per group                  *)
ValidConfig(nests, fields) ==
    /\ \A g, h \in 1..Len(nests) :
           g # h => /\ nests[g].id # nests[h].id
                    /\ struct_name(nests[g], root_ident) # struct_name(nests[h], root_ident)
    /\ \A g \in 1..Len(nests) :
           \/ origin(nests[g], root_ident) = root_ident
           \/ \E h \in 1..(g - 1) :
                  origin(nests[g], root_ident) = struct_name(nests[h], root_ident)
    /\ \A i \in 1..Len(fields) :
           /\ Range(fields[i].nest_in_opts) \subseteq Range(nest_ids(nests))
           /\ \A j, k \in 1..Len(fields[i].nest_in_opts) :
                  fields[i].nest_in_opts[j] = fields[i].nest_in_opts[k] => j = k

InitValid == Init /\ ValidConfig(nest_opts, origin_fields)

SpecValid == InitValid /\ [][Next]_vars

SpecValidTwice == InitValid /\ [][NextTwice]_vars

(* Configs whose group declarations may name no strategy, two strategies,  *)
(* or an empty id                                                          *)
InitDecl ==
    /\ nest_opts \in SeqsUpTo(DeclChoices, MaxNests)
    /\ origin_fields \in FieldChoices
    /\ attrs = <<>>
    /\ DefaultOpts
    /\ Idle

SpecDecl == InitDecl /\ [][Next]_vars

(* Configs with pass-through annotations on the struct and on its fields   *)
InitAttrs ==
    /\ nest_opts \in SeqsUpTo(AttrNestChoices, MaxNests)
    /\ origin_fields \in AttrFieldChoices
    /\ attrs \in StructAttrChoices
    /\ DefaultOpts
    /\ Idle

SpecAttrs == InitAttrs /\ [][Next]_vars

(* Configs whose pass-through annotations differ in class and group        *)
(* restriction, on groups of which one may be deeply nested                *)
PassNestChoices ==
    {NestOpts("g1", StrategyFrom, NoIdent, FALSE),
     NestOpts("g2", StrategyNested("RNestedG1"), NoIdent, FALSE)}

PassStructAttrChoices ==
    {<<>>,
     <<PassthroughAttribute(<<"g1">>, "nest", <<"x">>)>>,
     <<PassthroughAttribute(<<"g2">>, NoIdent, <<"x">>)>>,
     <<PassthroughAttribute(<<>>, "wrapper", <<"x">>),
       PassthroughAttribute(<<"g1">>, "extra", <<"w">>)>>,
     <<PassthroughAttribute(<<>>, NoIdent, <<"x">>),
       PassthroughAttribute(<<"g1">>, NoIdent, <<"x">>)>>}

PassFieldAttrChoices ==
    {<<>>,
     <<PassthroughAttribute(<<>>, NoIdent, <<"y">>)>>,
     <<PassthroughAttribute(<<"g1">>, NoIdent, <<"y">>),
       PassthroughAttribute(<<>>, NoIdent, <<"z">>)>>}

PassFieldChoices ==
    {fs \in [1..MaxFields -> [ident : Range(FieldNames),
                              nest_in_opts : {<<"g1">>, <<"g1", "g2">>},
                              attrs : PassFieldAttrChoices]] :
        \A i \in 1..MaxFields : fs[i].ident = FieldNames[i]}

InitPass ==
    /\ nest_opts \in SeqsUpTo(PassNestChoices, MaxNests)
    /\ origin_fields \in PassFieldChoices
    /\ attrs \in PassStructAttrChoices
    /\ DefaultOpts
    /\ Idle

SpecPass == InitPass /\ [][Next]_vars

(* Configs whose wrapper, extra and nest options list extra derives        *)
DeriveChoices == {<<>>, <<"PartialEq">>, <<"Debug">>, <<"PartialEq", "PartialEq">>}

DeriveNestChoices ==
    {[NestOpts("g1", StrategyFrom, NoIdent, FALSE) EXCEPT !.derive = d] :
        d \in DeriveChoices}
    \cup {NestOpts("g2", StrategyFrom, NoIdent, FALSE)}

DeriveFieldChoices ==
    {fs \in FieldChoices : \A i \in 1..MaxFields : fs[i].nest_in_opts \in {<<>>, <<"g1">>}}

InitDerive ==
    /\ nest_opts \in SeqsUpTo(DeriveNestChoices, MaxNests)
    /\ origin_fields \in DeriveFieldChoices
    /\ attrs = <<>>
    /\ wrapper_opts \in {WrapperOpts(d) : d \in DeriveChoices}
    /\ extra_opts \in {ExtraOpts(d) : d \in DeriveChoices}
    /\ Idle

SpecDerive == InitDerive /\ [][Next]_vars

(* A NestRepo on which any sequence of inserts and field additions is made *)
InitRepo ==
    /\ nest_opts = <<>>
    /\ origin_fields = <<>>
    /\ attrs = <<>>
    /\ DefaultOpts
    /\ Idle

RepoInsert ==
    /\ ~diag.aborted
    /\ Len(diag.inserted) < MaxNests
    /\ \E n \in NestChoices :
           LET opts == Declared(n, Len(diag.inserted) + 1)
               call == insert(repo, opts)
           IN  /\ repo' = call.repo
               /\ diag' = [diag EXCEPT
                              !.inserted = IF call.aborted THEN @ ELSE Append(@, opts),
                              !.attempt = [op |-> "insert", arg |-> opts],
                              !.errors = @ \o call.errors,
                              !.aborted = call.aborted]
    /\ UNCHANGED <<nest_opts, wrapper_opts, extra_opts, origin_fields, pc, nest_fields, issues, nest_origin_map,
                   origin_order, output, error, error_span, runs, prev_output,
                   attrs, struct_attrs, field_attrs>>

RepoAddFieldToNest ==
    /\ ~diag.aborted
    /\ \E nest_id \in NestIds \cup {"gx"}, i \in 1..MaxFields :
           LET field == RepoNestField(FieldNames[i], <<>>, diag.added + 1)
               call == add_field_to_nest(repo, nest_id, field)
           IN  /\ repo' = call.repo
               /\ diag' = [diag EXCEPT
                              !.added = IF call.aborted THEN @ ELSE @ + 1,
                              !.attempt = [op |-> "add_field_to_nest",
                                           arg |-> <<nest_id, field>>],
                              !.errors = @ \o call.errors,
                              !.aborted = call.aborted]
    /\ UNCHANGED <<nest_opts, wrapper_opts, extra_opts, origin_fields, pc, nest_fields, issues, nest_origin_map,
                   origin_order, output, error, error_span, runs, prev_output,
                   attrs, struct_attrs, field_attrs>>

NextRepo == RepoInsert \/ RepoAddFieldToNest

SpecRepo == InitRepo /\ [][NextRepo]_vars

\* the registry under insert calls alone
SpecInsert == InitRepo /\ [][RepoInsert]_vars

-----------------------------------------------------------------------------
(* Vocabulary of the properties, read off the Config and the output *)

Groups == 1..Len(nest_opts)

StructOf(g) == struct_name(nest_opts[g], root_ident)
OriginOf(g) == origin(nest_opts[g], root_ident)

\* the origins that have at least one child group
OriginsWithChildren == {OriginOf(g) : g \in Groups}

\* the child groups of an origin, in declaration order
ChildrenOf(o) == SelectSeq(nest_opts, LAMBDA n : origin(n, root_ident) = o)

\* a group acting as a sub-origin
IsParent(g) == \E k \in Groups : OriginOf(k) = StructOf(g)

Emitted(kind, class) ==
    {i \in 1..Len(output) : output[i].kind = kind /\ output[i].class = class}

StructsFor(class, of) == {i \in Emitted("struct", class) : output[i].of = of}

HasImpl(trait, from, to) ==
    \E i \in Emitted("impl", trait) : output[i].from = from /\ output[i].name = to

ImplsFrom(o) == {i \in 1..Len(output) : output[i].kind = "impl" /\ output[i].from = o}

\* the strategy a group uses once a deeply nested group inherits the strategy
\* of its origin group
RECURSIVE InheritedStrategy(_, _)
InheritedStrategy(n, depth) ==
    IF n.map_strategy.kind # "Nested" \/ depth = 0 THEN n.map_strategy
    ELSE LET parents == {g \in Groups : StructOf(g) = n.map_strategy.origin}
         IN  IF parents = {} THEN n.map_strategy
             ELSE InheritedStrategy(
                      nest_opts[CHOOSE g \in parents : \A h \in parents : g <= h],
                      depth - 1)

StrategyOf(n) == InheritedStrategy(n, Len(nest_opts))

\* the fields assigned to a group, in the order the origin struct declares them
AssignedFieldNames(id) ==
    LET assigned == SelectSeq(origin_fields, LAMBDA f : id \in Range(f.nest_in_opts))
    IN  [i \in 1..Len(assigned) |-> assigned[i].ident]

FieldNamesOf(item) == [j \in 1..Len(item.fields) |-> item.fields[j].name]

-----------------------------------------------------------------------------
(* C1: a Config whose group list contains two groups with the same identity *)
(* never completes generation: it is rejected with an identity-collision   *)
(* error.                                                                  *)
HasDuplicateIdentity ==
    \E g, h \in Groups : g # h /\ nest_opts[g].id = nest_opts[h].id

C1_DuplicateIdentityRejected ==
    HasDuplicateIdentity => pc \notin {"origin_map", "wrapper", "extra", "nest", "done"}

(* C2: when generation completes, no two emitted struct definitions        *)
(* (wrapper, extra and nest structs together) share a name.                *)
C2_StructNamesUnique ==
    pc = "done" =>
        \A i, j \in 1..Len(output) :
            (/\ output[i].kind = "struct"
             /\ output[j].kind = "struct"
             /\ output[i].name = output[j].name) => i = j

(* C3: generating twice from the same Config yields the same sequence of   *)
(* emitted struct and conversion definitions, fields included.             *)
C3_RegenerationIdentical ==
    (runs = 2 /\ pc = "done") => output = prev_output

(* C4: the nest struct emitted for a group lists exactly the origin fields *)
(* assigned to that group, each once, in the origin struct's declaration   *)
(* order.                                                                  *)
C4_NestFieldsInDeclarationOrder ==
    pc = "done" =>
        \A g \in Groups :
            /\ StructsFor("nest", nest_opts[g].id) # {}
            /\ \A i \in StructsFor("nest", nest_opts[g].id) :
                   FieldNamesOf(output[i]) = AssignedFieldNames(nest_opts[g].id)

C4_Witness ==
    /\ pc = "done"
    /\ \E i \in Emitted("struct", "nest") : Len(output[i].fields) >= 2

(* C5: when every child group of an origin (root or nested) uses the       *)
(* reuse-conversion strategy, a From<origin> conversion for the origin's   *)
(* wrapper, a From<&origin> conversion for its extra struct and a          *)
(* conversion for each child's nest struct are emitted.                    *)
C5_ReuseConversionsForEveryOrigin ==
    pc = "done" =>
        \A o \in OriginsWithChildren :
            (\A k \in 1..Len(ChildrenOf(o)) : StrategyOf(ChildrenOf(o)[k]).kind = "From")
            => /\ HasImpl("From", o, WrapperStructName(o))
               /\ HasImpl("FromRef", o, ExtraStructName(o))
               /\ \A k \in 1..Len(ChildrenOf(o)) :
                      HasImpl("ToNest", o, struct_name(ChildrenOf(o)[k], root_ident))

MixedStrategies(o) ==
    LET kids == ChildrenOf(o)
    IN  \/ \E k, l \in 1..Len(kids) :
               /\ kids[k].map_strategy.kind = "From"
               /\ kids[l].map_strategy.kind = "Transform"
        \/ \E k, l \in 1..Len(kids) :
               /\ kids[k].map_strategy.kind = "Transform"
               /\ kids[l].map_strategy.kind = "Transform"
               /\ kids[k].map_strategy.with # kids[l].map_strategy.with

C7_MixedStrategiesNoConversion ==
    pc = "done" =>
        \A o \in OriginsWithChildren :
            MixedStrategies(o)
            => /\ ImplsFrom(o) = {}
               /\ \A k \in 1..Len(ChildrenOf(o)) :
                      StructsFor("nest", ChildrenOf(o)[k].id) # {}

(* C8: in its parent's extra struct, a group that has child groups is      *)
(* embedded with its wrapper struct type, a group without children with    *)
(* its bare nest struct type.                                              *)
EmbedType(n) ==
    IF \E k \in Groups : OriginOf(k) = struct_name(n, root_ident)
    THEN WrapperStructName(struct_name(n, root_ident))
    ELSE struct_name(n, root_ident)

C8_ParentGroupEmbeddedAsWrapper ==
    pc = "done" =>
        \A o \in OriginsWithChildren : \A i \in StructsFor("extra", o) :
            /\ Len(output[i].fields) = Len(ChildrenOf(o))
            /\ \A k \in 1..Len(ChildrenOf(o)) :
                   output[i].fields[k].ty = EmbedType(ChildrenOf(o)[k])

(* C9: every origin with at least one child group gets exactly one wrapper *)
(* struct and exactly one extra struct, and every declared group exactly   *)
(* one nest struct.                                                        *)
C9_OneWrapperExtraPairPerOrigin ==
    pc = "done" =>
        /\ \A o \in OriginsWithChildren :
               /\ Cardinality(StructsFor("wrapper", o)) = 1
               /\ Cardinality(StructsFor("extra", o)) = 1
        /\ \A g \in Groups :
               Cardinality(StructsFor("nest", nest_opts[g].id))
                   = Cardinality({h \in Groups : nest_opts[h].id = nest_opts[g].id})

(* C10: for every group that has child groups, a conversion from the       *)
(* group's own origin to the group's nested wrapper type is emitted.       *)
C10_ConversionToNestedWrapper ==
    pc = "done" =>
        \A g \in Groups :
            IsParent(g) => HasImpl("From", OriginOf(g), WrapperStructName(StructOf(g)))

-----------------------------------------------------------------------------
\* the Config has passed every validation and generation has begun
Accepted == pc \in {"origin_map", "wrapper", "extra", "nest", "done"}

\* the origin of group g is neither the root nor a group declared before it
DanglingOrigin(g) ==
    /\ OriginOf(g) # root_ident
    /\ ~\E h \in 1..(g - 1) : StructOf(h) = OriginOf(g)

(* C11: a Config in which some group's origin names neither the root nor a *)
(* group declared before it is rejected, and no wrapper or extra struct is *)
(* ever emitted for an origin that is not the root or a declared group.    *)
C11_DanglingOriginRejected ==
    /\ (\E g \in Groups : DanglingOrigin(g)) => ~Accepted
    /\ \A i \in Emitted("struct", "wrapper") \cup Emitted("struct", "extra") :
           output[i].of \in {root_ident} \cup {StructOf(g) : g \in Groups}

\* following origin references from the struct o reaches the struct target
RECURSIVE OriginChainHits(_, _, _)
OriginChainHits(o, target, depth) ==
    \/ o = target
    \/ /\ depth > 0
       /\ \E h \in Groups :
              StructOf(h) = o /\ OriginChainHits(OriginOf(h), target, depth - 1)

HasOriginCycle ==
    \E g \in Groups : OriginChainHits(OriginOf(g), StructOf(g), Len(nest_opts))

(* C12: a Config declaring a group whose origin chain leads back to the    *)
(* group itself is rejected: in every accepted Config the parent relation  *)
(* among the groups is acyclic.                                            *)
C12_OriginCycleRejected ==
    Accepted => ~HasOriginCycle

-----------------------------------------------------------------------------
\* the groups that were in the NestRepo when the latest call was made
InsertedBefore ==
    IF diag.attempt.op = "insert" /\ ~diag.aborted
    THEN SubSeq(diag.inserted, 1, Len(diag.inserted) - 1)
    ELSE diag.inserted

\* the latest call inserted a group with a fresh id whose struct name is the
\* struct name of the earlier group InsertedBefore[k]
StructNameCollision(k) ==
    /\ diag.attempt.op = "insert"
    /\ \A j \in 1..Len(InsertedBefore) : InsertedBefore[j].id # diag.attempt.arg.id
    /\ struct_name(InsertedBefore[k], root_ident)
           = struct_name(diag.attempt.arg, root_ident)

(* C13: NestRepo::insert of a group whose resolved struct name (its rename, *)
(* else the default built from origin and field name) equals the struct    *)
(* name of a previously inserted group fails, leaves the repo as it was,   *)
(* and emits an error at the location of the first group's struct name.    *)
C13_InsertStructNameCollisionFails ==
    \A k \in 1..Len(InsertedBefore) :
        StructNameCollision(k)
        => /\ diag.aborted
           /\ Len(diag.inserted) = Len(InsertedBefore)
           /\ get_by_ident(repo, struct_name(diag.attempt.arg, root_ident))[1].opts
                  = InsertedBefore[k]
           /\ \E e \in 1..Len(diag.errors) :
                  diag.errors[e].span = struct_name_span(InsertedBefore[k])
           /\ diag.errors[Len(diag.errors)].span = id_span(diag.attempt.arg)

C13_Witness ==
    /\ diag.aborted
    /\ \E k \in 1..Len(InsertedBefore) :
           /\ StructNameCollision(k)
           /\ InsertedBefore[k].rename # NoIdent
           /\ diag.errors[1].span = Span("nest", k, "rename")

-----------------------------------------------------------------------------
\* the group identities named by a field but never declared
UnknownGroupsOfFields ==
    UNION {Range(origin_fields[i].nest_in_opts) : i \in 1..Len(origin_fields)}
        \ Range(nest_ids(nest_opts))

\* some field is assigned to the same group twice
DuplicateAssignment ==
    \E i \in 1..Len(origin_fields) : HasDuplicates(origin_fields[i].nest_in_opts)

(* C14: when a field names a group identity that was never declared,       *)
(* generation fails and emits nothing; unless another fatal error of the   *)
(* Config (a duplicate field assignment) was met first, the error is the   *)
(* unknown-group error naming an unresolvable group.                       *)
C14_UnknownGroupFromFieldFails ==
    UnknownGroupsOfFields # {}
    => /\ pc \in {"scope", "start", "validate", "aborted"}
       /\ output = <<>>
       /\ (pc = "aborted" /\ ~DuplicateAssignment)
          => \E id \in UnknownGroupsOfFields : error = "Unknown nest '" \o id \o "'"

C14_Witness ==
    /\ pc = "aborted"
    /\ "gx" \in UnknownGroupsOfFields
    /\ error = "Unknown nest 'gx'"

-----------------------------------------------------------------------------
\* the group restrictions of the pass-through annotations: which annotation
\* (of the struct or of a field) names which group identity
AnnotationReferencesOf(owner, raw) ==
    UNION {{[owner |-> owner, index |-> i, id |-> raw[i].nest[j]] :
               j \in 1..Len(raw[i].nest)} : i \in 1..Len(raw)}

AnnotationReferences ==
    AnnotationReferencesOf("struct", attrs)
    \cup UNION {AnnotationReferencesOf(origin_fields[f].ident, origin_fields[f].attrs) :
                  f \in 1..Len(origin_fields)}

UndeclaredReferences ==
    {r \in AnnotationReferences : r.id \notin Range(nest_ids(nest_opts))}

\* another fatal defect of the Config that is reported before, or instead of,
\* an undeclared group in an annotation
OtherAnnotationDefect ==
    \/ UnknownGroupsOfFields # {}
    \/ DuplicateAssignment
    \/ \E i \in 1..Len(attrs) : HasDuplicates(attrs[i].nest)
    \/ \E f \in 1..Len(origin_fields) : \E i \in 1..Len(origin_fields[f].attrs) :
           \/ HasDuplicates(origin_fields[f].attrs[i].nest)
           \/ origin_fields[f].attrs[i].context # NoIdent
    \/ \E r \in AnnotationReferences \ UndeclaredReferences :
           r.id \notin UNION {Range(origin_fields[f].nest_in_opts) :
                                 f \in 1..Len(origin_fields)}

(* C15: when a pass-through annotation of the struct or of a field         *)
(* restricts itself to a group identity that was never declared,           *)
(* generation fails and emits nothing; unless another fatal defect of the  *)
(* Config is reported first, the error names an undeclared group and is    *)
(* attributed to an annotation that references it.                         *)
C15_UnknownGroupFromAnnotationFails ==
    UndeclaredReferences # {}
    => /\ ~Accepted
       /\ output = <<>>
       /\ (pc = "aborted" /\ ~OtherAnnotationDefect)
          => \E r \in UndeclaredReferences :
                 /\ error = "Nest '" \o r.id \o "' doesn't exist"
                 /\ error_span = Span(r.owner, r.index, "attr")

C15_Witness ==
    /\ pc = "aborted"
    /\ ~OtherAnnotationDefect
    /\ error = "Nest 'gx' doesn't exist"
    /\ error_span.owner = "b"

-----------------------------------------------------------------------------
(* C16: assigning the same field to the same group twice makes generation  *)
(* fail with an error naming the group and the field, and in every Config  *)
(* that gets past that check each group's field list holds each field name *)
(* at most once.                                                           *)
C16_DuplicateFieldAssignmentFails ==
    /\ DuplicateAssignment
       => /\ pc \in {"scope", "start", "aborted"}
          /\ output = <<>>
          /\ pc = "aborted"
             => \E i \in 1..Len(origin_fields) :
                    \E id \in Range(origin_fields[i].nest_in_opts) :
                        /\ Len(SelectSeq(origin_fields[i].nest_in_opts,
                                         LAMBDA x : x = id)) > 1
                        /\ error = "Nest '" \o id \o "' already contains field: "
                                       \o origin_fields[i].ident
    /\ pc \notin {"scope", "start", "aborted"}
       => \A id \in DOMAIN nest_fields :
              ~HasDuplicates([k \in 1..Len(nest_fields[id]) |-> nest_fields[id][k].name])

C16_Witness ==
    /\ pc = "aborted"
    /\ DuplicateAssignment
    /\ error = "Nest 'g1' already contains field: b"

-----------------------------------------------------------------------------
\* group g declares neither reuse-conversion nor transformer-delegation and is
\* not deeply nested, or declares both at once
DeclaresNoStrategy(g) == nest_opts[g].map_strategy.kind = "None"
DeclaresBothStrategies(g) == nest_opts[g].map_strategy.kind = "Both"

(* C17: a group is accepted only if it declares exactly one mapping        *)
(* strategy: a Config with a group that declares none, or both at once, is *)
(* rejected.                                                               *)
C17_ExactlyOneStrategy ==
    (\E g \in Groups : DeclaresNoStrategy(g) \/ DeclaresBothStrategies(g))
    => ~Accepted

-----------------------------------------------------------------------------
(* C18: on a fatal configuration error the invocation produces no output:  *)
(* every check that can fail runs before the first struct or conversion is *)
(* appended to the output, so once something has been emitted the          *)
(* invocation no longer aborts, and an aborted invocation has emitted      *)
(* nothing.                                                                *)
C18_NoPartialOutput ==
    /\ pc = "aborted" => output = <<>>
    /\ output # <<>> => pc \in {"extra", "nest", "done"}

C18_Witness ==
    /\ pc = "aborted"
    /\ error = "Nest 'gx' doesn't exist"
    /\ error_span.owner = "struct"
    /\ nest_fields # <<>>
    /\ output = <<>>

-----------------------------------------------------------------------------
-----------------------------------------------------------------------------
\* every ident that is the origin or the struct of an inserted group, and the
\* root
RepoIdents ==
    {root_ident}
    \cup {origin(diag.inserted[k], root_ident) : k \in 1..Len(diag.inserted)}
    \cup {struct_name(diag.inserted[k], root_ident) : k \in 1..Len(diag.inserted)}

\* the inserted groups whose origin is o, in insertion order
InsertedUnder(o) ==
    SelectSeq(diag.inserted, LAMBDA n : origin(n, root_ident) = o)

(* C20: after any sequence of successful inserts, children_of(origin)      *)
(* returns exactly the groups whose origin is `origin`, each once, in the  *)
(* order they were inserted, and the per-origin grouping that emission     *)
(* uses (build_origin_map) lists the same groups in the same order.        *)
C20_ChildrenInInsertionOrder ==
    \A o \in RepoIdents :
        LET children == get_children_by_origin_ident(repo, o)
        IN  /\ [i \in 1..Len(children) |-> children[i].opts] = InsertedUnder(o)
            /\ [i \in 1..Len(children) |-> children[i].ident]
                   = [i \in 1..Len(InsertedUnder(o)) |->
                         struct_name(InsertedUnder(o)[i], root_ident)]
            /\ NestsOf(build_origin_map(diag.inserted, root_ident), o) = InsertedUnder(o)

C20_Witness ==
    /\ Len(diag.inserted) = 2
    /\ Len(get_children_by_origin_ident(repo, root_ident)) = 2
    /\ get_children_by_origin_ident(repo, root_ident)[1].opts.id = "g2"
    /\ get_children_by_origin_ident(repo, root_ident)[2].opts.id = "g1"

-----------------------------------------------------------------------------
(* C21: after any sequence of successful inserts, is_parent(s) holds       *)
(* exactly when some inserted group has s as its origin, exactly when      *)
(* children_of(s) is non-empty, and exactly when parent_of(g) = s for some *)
(* inserted group g.                                                       *)
C21_IsParentIffHasChildren ==
    \A s \in RepoIdents \cup {"Other"} :
        /\ is_parent_ident(repo, s)
               <=> (\E k \in 1..Len(diag.inserted) :
                        origin(diag.inserted[k], root_ident) = s)
        /\ is_parent_ident(repo, s)
               <=> (get_children_by_origin_ident(repo, s) # <<>>)
        /\ is_parent_ident(repo, s)
               <=> (\E k \in 1..Len(diag.inserted) :
                        get_parent_ident(repo, struct_name(diag.inserted[k], root_ident))
                            = <<s>>)

C21_Witness ==
    /\ Len(diag.inserted) = 2
    /\ is_parent_ident(repo, "RNestedG1")
    /\ is_parent_ident(repo, root_ident)
    /\ ~is_parent_ident(repo, "RNestedG1G2")

\* the number of keys of a map
Count(m) == Cardinality(DOMAIN m)

(* C27: after any sequence of insert calls the indexes of the registry     *)
(* agree: the struct-name map, the parent map, the id map and the id-span  *)
(* map each have one entry per successful insert; every id resolves        *)
(* through get_by_id to the group inserted with it; and every group's      *)
(* struct name appears exactly once, in the children list of its own       *)
(* origin and in no other list.                                            *)
C27_IndexesAgree ==
    /\ Count(repo.nest_map) = Len(diag.inserted)
    /\ Count(repo.nest_parent_map) = Len(diag.inserted)
    /\ Count(repo.nest_id_map) = Len(diag.inserted)
    /\ Count(repo.nest_id_span_map) = Len(diag.inserted)
    /\ \A k \in 1..Len(diag.inserted) :
           LET n == diag.inserted[k]
               ident == struct_name(n, root_ident)
           IN  /\ get_by_id(repo, n.id) # <<>>
               /\ get_by_id(repo, n.id)[1].opts = n
               /\ get_by_id(repo, n.id)[1].ident = ident
               /\ \A o \in DOMAIN repo.origin_children_map :
                      Len(SelectSeq(repo.origin_children_map[o], LAMBDA c : c = ident))
                          = IF o = origin(n, root_ident) THEN 1 ELSE 0

C27_Witness ==
    /\ Len(diag.inserted) = 2
    /\ Count(repo.nest_map) = 2
    /\ Count(repo.origin_children_map) = 2
    /\ Len(diag.errors) = 0
    /\ diag.attempt.op = "insert"

\* the registry with the fields of the group `ident` removed
WithoutFieldsOf(r, ident) ==
    [r EXCEPT !.nest_map = [i \in DOMAIN @ |->
                               IF i = ident THEN [@[i] EXCEPT !.fields = <<>>] ELSE @[i]]]

(* C28: a rejected insert (identity or struct-name collision) and a        *)
(* rejected add_field_to_nest (unknown group or duplicate field) leave     *)
(* every registry map and every group's field set as they were before the  *)
(* call; a successful add_field_to_nest changes only the field set of the  *)
(* named group, which gains the field.                                     *)
C28_RejectedCallsChangeNothing ==
    [][/\ diag'.aborted => repo' = repo
       /\ (diag'.attempt.op = "add_field_to_nest" /\ ~diag'.aborted)
          => LET nest_id == diag'.attempt.arg[1]
                 field == diag'.attempt.arg[2]
                 ident == repo.nest_id_map[nest_id]
             IN  /\ WithoutFieldsOf(repo', ident) = WithoutFieldsOf(repo, ident)
                 /\ repo'.nest_map[ident].fields
                        = Put(repo.nest_map[ident].fields, field.name, field)
                 /\ field.name \notin DOMAIN repo.nest_map[ident].fields]_vars

C28_Witness ==
    /\ diag.aborted
    /\ diag.attempt.op = "add_field_to_nest"
    /\ Len(diag.errors) = 2
    /\ diag.errors[1].msg = "First field defined here"
    /\ Count(repo.nest_map) = 2

\* the emitted structs that belong to origin o: its wrapper/extra pair and the
\* nest structs of its child groups
StructsOfOrigin(o) ==
    {i \in 1..Len(output) :
        /\ output[i].kind = "struct"
        /\ \/ output[i].class \in {"wrapper", "extra"} /\ output[i].of = o
           \/ /\ output[i].class = "nest"
              /\ \E g \in Groups : OriginOf(g) = o /\ nest_opts[g].id = output[i].of}

(* C22: struct emission order equals breadth-first discovery order from    *)
(* the root: the wrapper/extra pair and the nest structs of an origin's    *)
(* sibling groups are all emitted before any struct that belongs to their  *)
(* children, and sibling nest structs appear in declaration order.         *)
C22_EmissionBreadthFirst ==
    pc = "done" =>
        /\ \A p \in Groups :
               \A i \in StructsOfOrigin(OriginOf(p)), j \in StructsOfOrigin(StructOf(p)) :
                   i < j
        /\ \A g, h \in Groups :
               (g < h /\ OriginOf(g) = OriginOf(h)) =>
                   \A i \in StructsFor("nest", nest_opts[g].id),
                      j \in StructsFor("nest", nest_opts[h].id) : i < j

\* the emitted struct definitions
Structs == {i \in 1..Len(output) : output[i].kind = "struct"}

\* the struct-level annotation a, as written, may be copied onto struct i
MayCarry(a, i) ==
    /\ a.context = NoIdent \/ a.context = output[i].class
    /\ \/ a.nest = <<>>
       \/ output[i].class = "nest" /\ output[i].of \in Range(a.nest)
       \/ /\ output[i].class \in {"wrapper", "extra"}
          /\ \E g \in Groups :
                 OriginOf(g) = output[i].of /\ nest_opts[g].id \in Range(a.nest)

(* C23: a struct-level pass-through annotation is copied onto a generated  *)
(* struct only if the struct's class is among the annotation's classes     *)
(* (all three when none is named) and, when the annotation is restricted   *)
(* to groups, only if the struct is associated with one of them: a nest    *)
(* struct only if its own identity is listed, a wrapper or extra struct    *)
(* only if one of its origin's child groups is listed.                     *)
C23_StructAttrOnlyWhereScoped ==
    pc = "done" =>
        \A i \in Structs :
            \A t \in Range(output[i].attrs) :
                \E k \in 1..Len(attrs) : t \in Range(attrs[k].attr) /\ MayCarry(attrs[k], i)

C23_Witness ==
    /\ pc = "done"
    /\ \E k \in 1..Len(attrs) : attrs[k].nest # <<>> /\ attrs[k].context # NoIdent
    /\ \E i, j \in Structs :
           /\ output[i].class = "extra" /\ output[i].attrs = <<"w">>
           /\ output[j].class = "extra" /\ output[j].attrs = <<>>
    /\ \E i \in Structs : output[i].class = "wrapper" /\ output[i].attrs = <<"x">>
    /\ \E i \in Structs : output[i].class = "nest" /\ output[i].attrs = <<>>

(* C24: the attribute list accumulated for each generated struct contains  *)
(* no two entries with the same rendered text.                             *)
C24_StructAttrsDeduplicated ==
    pc = "done" => \A i \in Structs : ~HasDuplicates(output[i].attrs)

(* C25: every emitted struct's derive list is the baseline trio (Debug,    *)
(* Clone, Serialize) followed by the additions of the Config, and names    *)
(* no derive twice, also when an addition repeats a baseline derive or     *)
(* another addition.                                                       *)
C25_DerivesBaselineThenAdditionsOnce ==
    pc = "done" =>
        \A i \in Structs :
            /\ Len(output[i].derives) >= 3
            /\ SubSeq(output[i].derives, 1, 3) = <<"Debug", "Clone", "serde::Serialize">>
            /\ ~HasDuplicates(output[i].derives)

\* the field-level annotations that apply to field f in the group `id`
AppliesTo(f, id) ==
    LET declared == SelectSeq(origin_fields, LAMBDA d : d.ident = f)
    IN  UNION {{a.attr[k] : k \in 1..Len(a.attr)} :
               a \in {x \in UNION {Range(d.attrs) : d \in Range(declared)} :
                         x.nest = <<>> \/ id \in Range(x.nest)}}

(* C26: every field-level pass-through annotation that applies to field f  *)
(* in group G (unrestricted, or restricted to a list containing G) is      *)
(* attached to the generated field f of G's nest struct, also when f       *)
(* carries several such annotations.                                       *)
C26_EveryFieldAttrAttached ==
    pc = "done" =>
        \A i \in Emitted("struct", "nest") :
            \A j \in 1..Len(output[i].fields) :
                AppliesTo(output[i].fields[j].name, output[i].of)
                    \subseteq Range(output[i].fields[j].attrs)

\* the names of the emitted struct definitions
EmittedNames == {output[i].name : i \in Structs}

\* the struct types an emitted definition refers to: the type of every field
\* of a struct, and the source and target of every conversion
ReferencedTypes ==
    UNION {{output[i].fields[j].ty : j \in 1..Len(output[i].fields)} : i \in Structs}
    \cup {output[i].name : i \in 1..Len(output)}
    \cup {output[i].from : i \in {k \in 1..Len(output) : output[k].kind = "impl"}}

(* C29: for every accepted Config, every struct type an emitted definition *)
(* refers to is itself emitted or is the root struct; in particular the    *)
(* extra struct named by the root wrapper's extra field is emitted even    *)
(* when the root has no child group.                                       *)
C29_ReferencedStructsEmitted ==
    pc = "done" =>
        ReferencedTypes \subseteq EmittedNames \cup {root_ident, field_type}

(* C30: a pass-through annotation whose group restriction lists only       *)
(* declared group identities is accepted, also when a listed group has no  *)
(* field assigned to it: no declared identity is ever reported as a group  *)
(* that does not exist.                                                    *)
C30_DeclaredGroupsAcceptedInAnnotations ==
    \A id \in Range(nest_ids(nest_opts)) :
        ~(pc = "aborted" /\ error = "Nest '" \o id \o "' doesn't exist")

====
